---- MODULE Spec2Model ----
(***************************************************************************)
(* Model of src/PY/processes.py: the class `process` of BETR-Research.     *)
(* The engine validates the process names of model.proclist when it is     *)
(* constructed, and getD calls every listed process method in list order,  *)
(* merging each returned {(from, to, processname) : D} dictionary into the *)
(* shared dictionary self.D with dict.update.                              *)
(*                                                                         *)
(* Grid-valued quantities (numpy arrays) are functions from Cells to exact *)
(* rationals <<numerator, denominator>> in lowest terms; numpy's element-  *)
(* wise arithmetic is modelled by the array operators ++ -- ** //.         *)
(***************************************************************************)
EXTENDS Integers, Sequences, FiniteSets, TLC

\* Number of grid cells of every array.
NCells == 1

\* Number of calls of getD made on one engine instance.
MaxCalls == 2

Cells == 1..NCells

----------------------------------------------------------------------------
(* Exact rational arithmetic standing for the float arithmetic of numpy.   *)

RECURSIVE Gcd(_, _)
Gcd(a, b) == IF b = 0 THEN a ELSE Gcd(b, a % b)

Abs(a) == IF a < 0 THEN -a ELSE a

\* The rational n/d in lowest terms with a positive denominator.  A zero
\* denominator gives the non-finite floats: <<1, 0>> is inf, <<-1, 0>> is
\* -inf and <<0, 0>> is nan.
Rat(n, d) ==
  LET g == IF n = 0 /\ d = 0 THEN 1 ELSE Gcd(Abs(n), Abs(d))
      s == IF d < 0 THEN -1 ELSE 1
  IN  <<(s * n) \div g, (s * d) \div g>>

NaN == <<0, 0>>
IsFinite(x) == x[2] > 0
Recip(x) == IF x[1] < 0 THEN <<-x[2], -x[1]>> ELSE <<x[2], x[1]>>

Zero == <<0, 1>>
One == <<1, 1>>
Two == <<2, 1>>

x (+) y ==
  IF x[2] = 0 /\ y[2] = 0 THEN (IF x = y THEN x ELSE NaN)
                          ELSE Rat(x[1] * y[2] + y[1] * x[2], x[2] * y[2])
x (-) y == x (+) <<-y[1], y[2]>>
x (.) y == Rat(x[1] * y[1], x[2] * y[2])
x (/) y == x (.) Recip(y)
RGt(x, y) == x[1] * y[2] > y[1] * x[2]
\* minimum(x, y) of numpy: nan if either is nan.
RMin(x, y) == IF x = NaN \/ y = NaN THEN NaN ELSE IF RGt(x, y) THEN y ELSE x
RMax(x, y) == IF x = NaN \/ y = NaN THEN NaN ELSE IF RGt(x, y) THEN x ELSE y

\* Element-wise array arithmetic.
a ++ b == [c \in Cells |-> a[c] (+) b[c]]
a -- b == [c \in Cells |-> a[c] (-) b[c]]
a ** b == [c \in Cells |-> a[c] (.) b[c]]
a // b == [c \in Cells |-> a[c] (/) b[c]]

\* A scalar broadcast over the grid.
Const(x) == [c \in Cells |-> x]

----------------------------------------------------------------------------
(* Names.                                                                  *)

\* The process description methods of class process.
ProcessMethods ==
  { "betr_degradation", "betr_advectiveloss", "betr_air1_air2_mix",
    "betr_air2_veg_diff", "betr_air2_veg_drydep",
    "betr_air2_veg_dissolution", "betr_air2_veg_wetparticle",
    "betr_air2_freshwater_diff", "betr_air2_freshwater_drydep",
    "betr_air2_freshwater_dissolution", "betr_air2_freshwater_wetparticle",
    "betr_air2_ocean_diff", "betr_air2_ocean_drydep",
    "betr_air2_ocean_dissolution", "betr_air2_ocean_wetparticle",
    "betr_air2_soil_diff", "betr_air2_soil_drydep",
    "betr_air2_soil_dissolution", "betr_air2_soil_wetparticle",
    "betr_vegetation_soil_litter", "betr_freshwater_ocean_runoff",
    "betr_ocean_sinkflux", "betr_freshwater_sediment_diff",
    "betr_freshwater_sediment_deposit", "betr_ocean_air_resusp",
    "betr_soil_air_resusp", "betr_soil_veg_rootuptake",
    "betr_soil_freshwater_runoff", "betr_soil_freshwater_erosion",
    "betr_sediment_freshwater_resusp", "betr_intermittent_rain" }

\* Attributes of an engine instance that are not process descriptions: the
\* instance attributes set by __init__ before the validation loop, and the
\* other methods of the class.
OtherAttributes == {"m", "D", "plist", "getD", "__init__", "__doc__", "__module__"}

\* getattr(self, p) succeeds.
HasAttr(p) == p \in ProcessMethods \cup OtherAttributes

\* The four exchanges with a wet-particle and a dissolution process:
\* destination compartment and the name stem.
Exchanges == {"veg", "freshwater", "ocean", "soil"}

Dest(x) ==
  CASE x = "veg" -> 3 [] x = "freshwater" -> 4 [] x = "ocean" -> 5 [] x = "soil" -> 6

WetName(x) ==
  CASE x = "veg" -> "betr_air2_veg_wetparticle"
    [] x = "freshwater" -> "betr_air2_freshwater_wetparticle"
    [] x = "ocean" -> "betr_air2_ocean_wetparticle"
    [] x = "soil" -> "betr_air2_soil_wetparticle"

DissName(x) ==
  CASE x = "veg" -> "betr_air2_veg_dissolution"
    [] x = "freshwater" -> "betr_air2_freshwater_dissolution"
    [] x = "ocean" -> "betr_air2_ocean_dissolution"
    [] x = "soil" -> "betr_air2_soil_dissolution"

WetKey(x) == <<2, Dest(x), WetName(x)>>
DissKey(x) == <<2, Dest(x), DissName(x)>>

\* The eight keys betr_intermittent_rain reads and returns.
RainKeys == {WetKey(x) : x \in Exchanges} \cup {DissKey(x) : x \in Exchanges}
RainProcs == {WetName(x) : x \in Exchanges} \cup {DissName(x) : x \in Exchanges}

\* A dictionary with one entry.
Entry(k, v) == [j \in {k} |-> v]

EmptyGraph == [j \in {} |-> Const(Zero)]

----------------------------------------------------------------------------
(* The model object self.m: the parameter snapshot the processes read.     *)

Compartments == 1..7

\* The parameters of one grid cell that the inputs vary: dry and wet period
\* durations, vegetation fraction, bulk volume of the lower air, the rain
\* and aerosol fugacity capacities of the lower air, the freshwater, ocean
\* and soil fractions, the leaf area index and the bulk volumes of
\* vegetation and freshwater.
ProfileValues ==
  [ stdry : {Zero, Two}, stwet : {Zero, One}, perc3 : {Zero, <<1, 2>>},
    V2 : {<<4, 1>>, <<40, 1>>}, zrain : {Zero, One}, zaerosol : {Zero, Two},
    perc4 : {<<1, 5>>}, perc5 : {<<3, 10>>}, perc6 : {<<1, 2>>},
    LAI : {<<3, 1>>}, V3 : {<<30, 1>>}, V4 : {<<40, 1>>} ]

\* A cell has rain dissolution, wet particle deposition, or both.
CellProfiles == {q \in ProfileValues : q.zrain # Zero \/ q.zaerosol # Zero}

Washout == [stdry |-> Two, stwet |-> One, perc3 |-> <<1, 2>>, V2 |-> <<40, 1>>,
            zrain |-> One, zaerosol |-> Two,
            perc4 |-> <<1, 5>>, perc5 |-> <<3, 10>>, perc6 |-> <<1, 2>>,
            LAI |-> <<3, 1>>, V3 |-> <<30, 1>>, V4 |-> <<40, 1>>]
MassLimited == [Washout EXCEPT !.V2 = <<4, 1>>]
NoRain == [Washout EXCEPT !.stwet = Zero]

\* Cells in which a surface is absent: no freshwater body (zero fraction,
\* zero volume), no ocean, no soil, no vegetation cover, no leaves; and a
\* cell whose vegetation is large enough for the air-vegetation speed limit
\* not to bind.
NoFreshwater(q) == [q EXCEPT !.perc4 = Zero, !.V4 = Zero]
NoOcean(q) == [q EXCEPT !.perc5 = Zero]
NoSoil(q) == [q EXCEPT !.perc6 = Zero]
VegKinds(q) ==
  { q, [q EXCEPT !.perc3 = Zero], [q EXCEPT !.LAI = Zero],
    [q EXCEPT !.V3 = <<60, 1>>] }
SurfaceProfiles ==
  UNION { UNION { UNION { VegKinds(s) : s \in {o, NoSoil(o)} }
                    : o \in {f, NoOcean(f)} }
            : f \in {Washout, NoFreshwater(Washout)} }

\* par with the fields every parametrisation has.  The fields 'perc8' (the
\* pot-lid assumption) and 'mixing21' are absent from older ones.
ParLegacy(prof) ==
  [ A |-> Const(<<10, 1>>),
    perc3 |-> [c \in Cells |-> prof[c].perc3],
    perc4 |-> [c \in Cells |-> prof[c].perc4],
    perc5 |-> [c \in Cells |-> prof[c].perc5],
    perc6 |-> [c \in Cells |-> prof[c].perc6],
    LAI |-> [c \in Cells |-> prof[c].LAI],
    intercept |-> Const(<<2, 5>>),
    precip |-> Const(<<3, 2>>),
    stdry |-> [c \in Cells |-> prof[c].stdry],
    stwet |-> [c \in Cells |-> prof[c].stwet],
    scavrat |-> Const(<<3, 1>>),
    fp2 |-> Const(<<1, 2>>),
    convec6solids |-> Const(<<1, 4>>),
    runoff6water |-> Const(<<1, 2>>),
    runoff6solids |-> Const(<<1, 4>>),
    sedburial |-> Const(<<1, 5>>),
    diffstrato |-> Const(<<1, 3>>),
    partsink5 |-> Const(<<1, 4>>),
    mixing12 |-> Const(Two),
    mtcairvegair |-> Const(<<5, 1>>),
    mtcaerosol |-> Const(<<4, 1>>),
    mtc4air |-> Const(<<3, 1>>),
    mtc4water |-> Const(<<1, 3>>),
    mtc25air |-> Const(Two),
    mtc25water |-> Const(<<1, 2>>),
    h6 |-> Const(<<1, 4>>),
    diff6air |-> Const(<<4, 1>>),
    diff6water |-> Const(<<1, 9>>),
    tspe |-> Const(<<22, 7>>),
    mtc6air |-> Const(<<3, 1>>),
    tauveg |-> Const(<<8, 1>>),
    diff7water |-> Const(<<1, 6>>),
    seddep |-> Const(<<1, 7>>),
    prodaerosol5 |-> Const(<<1, 8>>),
    resusp6 |-> Const(<<1, 9>>),
    vegwateruptake |-> Const(<<1, 10>>),
    sedresup |-> Const(<<1, 11>>) ]

OptionalPar == [perc8 |-> Const(<<1, 10>>), mixing21 |-> Const(<<3, 1>>)]

\* par with the optional fields named in present.
Par(prof, present) ==
  [f \in DOMAIN ParLegacy(prof) \cup present |->
     IF f \in present THEN OptionalPar[f] ELSE ParLegacy(prof)[f]]

\* The rows (from region, to region, flow) of one flow matrix: a flow
\* within each region and one between two regions.
FlowRows(within) ==
  [i \in 1..(NCells + 1) |->
     IF i <= NCells THEN <<i, i, within>> ELSE <<1, 2, <<9, 1>>>>]

\* An array whose shape does not broadcast against the arrays of the grid.
Misshapen(x) == [c \in 1..(NCells + 1) |-> x]

\* The model object built from a profile per cell, the control flags ctl
\* and opt: the optional fields par has, and whether zdict[5]['air'] has
\* the shape of the grid.  Kow and molmass are held as their decimal
\* logarithms.
ModelObject(prof, ctl, opt) ==
  [ par |-> Par(prof, opt.present),
    compdict |-> Compartments,
    zdict |-> [k \in Compartments |->
                 [ bulk |-> Const(<<k + 1, 1>>),
                   air |-> IF k = 5 /\ ~opt.z5air THEN Misshapen(<<k, 1>>)
                                                  ELSE Const(<<k, 1>>),
                   rain |-> [c \in Cells |-> prof[c].zrain],
                   aerosol |-> [c \in Cells |-> prof[c].zaerosol],
                   water |-> Const(Rat(k, 2)),
                   solids |-> Const(<<2 * k, 1>>),
                   sussed |-> Const(<<3 * k, 1>>) ]],
    vdict |-> [k \in Compartments |->
                 [ bulk |-> CASE k = 2 -> [c \in Cells |-> prof[c].V2]
                              [] k = 3 -> [c \in Cells |-> prof[c].V3]
                              [] k = 4 -> [c \in Cells |-> prof[c].V4]
                              [] OTHER -> Const(<<10 * k, 1>>) ]],
    chemdict |-> [log10molmass |-> Two],
    chempardict |-> [k \in Compartments |->
                       [ k_reac |-> Const(<<1, k + 1>>),
                         log10Kow |-> IF k = 6 THEN Const(<<89, 50>>)
                                               ELSE Const(<<1375, 279>>),
                         Kaw |-> Const(<<9, 2500>>) ]],
    flowdict |-> [k \in {<<4, 5>>, <<5, 5>>} |->
                    FlowRows(IF k = <<4, 5>> THEN Two ELSE <<5, 1>>)],
    controldict |-> ctl ]

----------------------------------------------------------------------------
(* The process descriptions.  Each takes the model object (and, for the    *)
(* intermittent-rain process, the shared dictionary self.D) and returns a  *)
(* dictionary from keys (from, to, processname) to arrays.                 *)

\* The tokens for which betr_degradation takes degradation in air to be in
\* the gas phase only.  The list literal of the source has no comma
\* between 'FALSE' and 'F': Python joins adjacent string literals.
AerosolDegOff == {"0", "False", "false", "f", "FALSEF", "No", "no", "n", "NO"}

betr_degradation(m) ==
  LET procname == "betr_degradation"
      Bulk == [k \in {<<c, c, procname>> : c \in m.compdict} |->
                 (m.chempardict[k[1]].k_reac ** m.vdict[k[1]].bulk)
                    ** m.zdict[k[1]].bulk]
      Gas(c) == (m.chempardict[c].k_reac ** m.vdict[c].bulk) ** m.zdict[c].air
  IN  IF m.controldict.aerosoldeg \in AerosolDegOff
        THEN [k \in DOMAIN Bulk \cup {<<1, 1, procname>>, <<2, 2, procname>>} |->
                IF k \in {<<1, 1, procname>>, <<2, 2, procname>>}
                  THEN Gas(k[1]) ELSE Bulk[k]]
        ELSE Bulk

\* As mtc_event, the rate not set to 0 where stwet is 0.
mtc_event_nooverride(m) ==
  LET norainmask == [c \in Cells |-> m.par.stwet[c] = Zero]
      stwet_tmp == [c \in Cells |-> IF norainmask[c] THEN One ELSE m.par.stwet[c]]
  IN  (m.par.precip ** (m.par.stdry ++ m.par.stwet)) // stwet_tmp

\* The rain rate during precipitation events, as each of the eight wet
\* deposition processes derives it: divide by stwet with 1 put in place of
\* 0, then set the rate to 0 where stwet is 0.
mtc_event(m) ==
  LET norainmask == [c \in Cells |-> m.par.stwet[c] = Zero]
      stwet_tmp == [c \in Cells |-> IF norainmask[c] THEN One ELSE m.par.stwet[c]]
      raw == (m.par.precip ** (m.par.stdry ++ m.par.stwet)) // stwet_tmp
  IN  [c \in Cells |-> IF norainmask[c] THEN Zero ELSE raw[c]]

\* par['perc8'] raises ValueError when the field is absent.
HasPerc8(m) == "perc8" \in DOMAIN m.par

betr_air2_veg_dissolution(m) ==
  LET A == (m.par.A ** m.par.perc6) ** m.par.perc3
  IN  Entry(<<2, 3, "betr_air2_veg_dissolution">>,
            ((A ** mtc_event(m)) ** m.zdict[2].rain) ** m.par.intercept)

betr_air2_veg_wetparticle(m) ==
  LET A == (m.par.A ** m.par.perc6) ** m.par.perc3
  IN  Entry(<<2, 3, "betr_air2_veg_wetparticle">>,
            ((((A ** mtc_event(m)) ** m.zdict[2].aerosol) ** m.par.scavrat)
                ** m.par.fp2) ** m.par.intercept)

betr_air2_freshwater_dissolution(m) ==
  Entry(<<2, 4, "betr_air2_freshwater_dissolution">>,
        ((m.par.A ** m.par.perc4) ** mtc_event(m)) ** m.zdict[2].rain)

betr_air2_freshwater_wetparticle(m) ==
  Entry(<<2, 4, "betr_air2_freshwater_wetparticle">>,
        ((((m.par.A ** m.par.perc4) ** mtc_event(m)) ** m.zdict[2].aerosol)
            ** m.par.fp2) ** m.par.scavrat)

betr_air2_ocean_dissolution(m) ==
  Entry(<<2, 5, "betr_air2_ocean_dissolution">>,
        IF HasPerc8(m)
          THEN (((m.par.A ** m.par.perc5) ** (Const(One) -- m.par.perc8))
                  ** mtc_event(m)) ** m.zdict[2].rain
          ELSE ((m.par.A ** m.par.perc5) ** mtc_event(m)) ** m.zdict[2].rain)

betr_air2_ocean_wetparticle(m) ==
  Entry(<<2, 5, "betr_air2_ocean_wetparticle">>,
        IF HasPerc8(m)
          THEN (((((m.par.A ** m.par.perc5) ** (Const(One) -- m.par.perc8))
                   ** mtc_event(m)) ** m.zdict[2].aerosol) ** m.par.fp2)
                 ** m.par.scavrat
          ELSE ((((m.par.A ** m.par.perc5) ** mtc_event(m)) ** m.zdict[2].aerosol)
                  ** m.par.fp2) ** m.par.scavrat)

betr_air2_soil_dissolution(m) ==
  Entry(<<2, 6, "betr_air2_soil_dissolution">>,
        ((m.par.A ** m.par.perc6) ** mtc_event(m)) ** m.zdict[2].rain)

betr_air2_soil_wetparticle(m) ==
  Entry(<<2, 6, "betr_air2_soil_wetparticle">>,
        ((((m.par.A ** m.par.perc6) ** mtc_event(m)) ** m.zdict[2].aerosol)
            ** m.par.fp2) ** m.par.scavrat)

\* As do_jolliet, the mass-limited branch not divided by dj2.
do_jolliet_nodj2(wa, dwet, ddiss, twet, tdry, tsum) ==
  LET dj1 == (wa (.) tsum) (/) tdry
      dj2 == ((dwet (+) ddiss) (.) twet) (/) tsum
      dj1mask == IF RGt(dj1, dj2) THEN One ELSE Zero
      dj2mask == IF dj1mask = Zero THEN One ELSE Zero
      ddissnew == (((dj1mask (.) ddiss) (.) twet) (/) tsum)
                    (+) ((((dj2mask (.) dj1) (.) ddiss) (.) twet) (/) tsum)
      dwetnew == (((dj1mask (.) dwet) (.) twet) (/) tsum)
                   (+) ((((dj2mask (.) dj1) (.) dwet) (.) twet) (/) tsum)
  IN  <<dwetnew, ddissnew>>

\* As do_jolliet, the two regimes taken the other way round.
do_jolliet_swapped(wa, dwet, ddiss, twet, tdry, tsum) ==
  LET dj1 == (wa (.) tsum) (/) tdry
      dj2 == ((dwet (+) ddiss) (.) twet) (/) tsum
      dj1mask == IF RGt(dj2, dj1) THEN One ELSE Zero
      dj2mask == IF dj1mask = Zero THEN One ELSE Zero
      ddissnew == (((dj1mask (.) ddiss) (.) twet) (/) tsum)
                    (+) (((((dj2mask (.) dj1) (.) ddiss) (/) dj2) (.) twet) (/) tsum)
      dwetnew == (((dj1mask (.) dwet) (.) twet) (/) tsum)
                   (+) (((((dj2mask (.) dj1) (.) dwet) (/) dj2) (.) twet) (/) tsum)
  IN  <<dwetnew, ddissnew>>

\* _do_jolliet on one cell of the mask: <<dwetnew, ddissnew>>.
do_jolliet(wa, dwet, ddiss, twet, tdry, tsum) ==
  LET dj1 == (wa (.) tsum) (/) tdry
      dj2 == ((dwet (+) ddiss) (.) twet) (/) tsum
      dj1mask == IF RGt(dj1, dj2) THEN One ELSE Zero
      dj2mask == IF dj1mask = Zero THEN One ELSE Zero
      ddissnew == (((dj1mask (.) ddiss) (.) twet) (/) tsum)
                    (+) (((((dj2mask (.) dj1) (.) ddiss) (/) dj2) (.) twet) (/) tsum)
      dwetnew == (((dj1mask (.) dwet) (.) twet) (/) tsum)
                   (+) (((((dj2mask (.) dj1) (.) dwet) (/) dj2) (.) twet) (/) tsum)
  IN  <<dwetnew, ddissnew>>

\* As JollietMask, the dissolution D-value not tested.
JollietMask_wetonly(m, dwet, ddiss) ==
  {c \in Cells : /\ m.par.stdry[c] # Zero
                 /\ m.par.stwet[c] # Zero
                 /\ dwet[c] # Zero}

\* The cells one exchange is revised in.
JollietMask(m, dwet, ddiss) ==
  {c \in Cells : /\ m.par.stdry[c] # Zero
                 /\ m.par.stwet[c] # Zero
                 /\ dwet[c] # Zero
                 /\ ddiss[c] # Zero}

\* One exchange of betr_intermittent_rain: copies of the two arrays of the
\* dictionary, revised in the cells of the mask.  frac is the area
\* fraction that scales the washout term wa of the exchange.
ReviseExchange(m, dwet, ddiss, frac) ==
  LET mask == JollietMask(m, dwet, ddiss)
      new(c) ==
        LET tdry == m.par.stdry[c]
            twet == m.par.stwet[c]
            tsum == tdry (+) twet
            wa == (((m.vdict[2].bulk[c] (.) m.zdict[2].bulk[c]) (.) Two) (/) tdry)
                    (.) frac[c]
        IN  do_jolliet(wa, dwet[c], ddiss[c], twet, tdry, tsum)
  IN  << [c \in Cells |-> IF c \in mask THEN new(c)[1] ELSE dwet[c]],
         [c \in Cells |-> IF c \in mask THEN new(c)[2] ELSE ddiss[c]] >>

\* The area fraction in wa of each exchange.
WashoutFraction(m, x) ==
  CASE x = "veg" -> (m.par.perc6 ** m.par.perc3) ** m.par.intercept
    [] x = "freshwater" -> m.par.perc4
    [] x = "ocean" -> m.par.perc5
    [] x = "soil" -> m.par.perc6

\* As InterceptionCorrection, the interception fraction left out.
InterceptionCorrection_nointercept(m, d) == d ** (Const(One) -- m.par.perc3)

\* The correction for vegetation interception, applied to the whole
\* air-soil arrays after the cells of the mask are written.
InterceptionCorrection(m, d) ==
  d ** (Const(One) -- (m.par.perc3 ** m.par.intercept))

\* What a call of a process method ends with: the dictionary it returns,
\* or the exception it raises.
Ok(r) == [exception |-> "none", value |-> r]
Exc(e) == [exception |-> e, value |-> EmptyGraph]

\* The dictionary betr_intermittent_rain returns, d holding the eight keys.
RevisedGraph(m, d) ==
  LET rev(x) == ReviseExchange(m, d[WetKey(x)], d[DissKey(x)], WashoutFraction(m, x))
      out(x, i) == IF x = "soil" THEN InterceptionCorrection(m, rev(x)[i])
                                 ELSE rev(x)[i]
  IN  [k \in RainKeys |->
         LET x == CHOOSE y \in Exchanges : k \in {WetKey(y), DissKey(y)}
         IN  IF k = WetKey(x) THEN out(x, 1) ELSE out(x, 2)]

\* As betr_intermittent_rain, a key that self.D lacks read as zeros.
betr_intermittent_rain_default(m, D) ==
  Ok(RevisedGraph(m, [k \in RainKeys |-> IF k \in DOMAIN D THEN D[k] ELSE Const(Zero)]))

\* betr_intermittent_rain: self.D[key] raises KeyError unless self.D holds
\* each of the eight keys.
betr_intermittent_rain(m, D) ==
  IF RainKeys \subseteq DOMAIN D THEN Ok(RevisedGraph(m, D)) ELSE Exc("KeyError")

----------------------------------------------------------------------------
(* The process descriptions that do not depend on rain events.             *)

\* A dictionary with two entries; the second assignment wins on one key.
Entries(k1, v1, k2, v2) == [j \in {k1, k2} |-> IF j = k2 THEN v2 ELSE v1]

\* zeros(shape)
Zeros == Const(Zero)

\* The integer square root of a perfect square, and sqrt on the rationals
\* whose numerator and denominator are perfect squares.
ISqrt(n) == CHOOSE r \in 0..n : r * r = n
Sqrt(x) == <<ISqrt(x[1]), ISqrt(x[2])>>

\* 10**x for a whole x.
RECURSIVE Pow10(_)
Pow10(x) ==
  IF x[1] = 0 THEN One
  ELSE IF x[1] > 0 THEN <<10, 1>> (.) Pow10(<<x[1] - 1, 1>>)
  ELSE <<1, 10>> (.) Pow10(<<x[1] + 1, 1>>)

\* exp(x) at the argument the parameters give it.
Exp(x) == CASE x = Zero -> One

\* pi, to the precision of 22/7.
pi == <<22, 7>>

\* The tokens for which the processes suppress re-emission from surface
\* compartments, and for which betr_air2_soil_diff enhances diffusion by
\* plowing.  Every list literal of the source has no comma between 'TRUE'
\* and 'T': Python joins adjacent string literals.
SwitchedOn == {"1", "True", "true", "t", "TRUET", "Yes", "yes", "y", "YES"}

betr_advectiveloss(m) ==
  [k \in { <<6, 6, "burial">>, <<6, 6, "leach">>, <<7, 7, "burial">>,
           <<1, 1, "stratosphere">>, <<5, 5, "sedimentation">> } |->
     CASE k = <<6, 6, "burial">> ->
            (((Const(<<1, 20>>) ** m.par.convec6solids) ** m.par.A)
                ** m.par.perc6) ** m.zdict[6].solids
       [] k = <<6, 6, "leach">> ->
            (((m.par.precip -- m.par.runoff6water) ** m.par.A) ** m.par.perc6)
              ** m.zdict[6].water
       [] k = <<7, 7, "burial">> ->
            ((m.par.sedburial ** m.par.A) ** m.par.perc4) ** m.zdict[7].solids
       [] k = <<1, 1, "stratosphere">> ->
            (m.par.diffstrato ** m.par.A) ** m.zdict[1].air
       [] k = <<5, 5, "sedimentation">> ->
            ((m.par.partsink5 ** m.par.A) ** m.par.perc5) ** m.zdict[5].sussed]

\* par['mixing21'] raises ValueError when the field is absent.
HasMixing21(m) == "mixing21" \in DOMAIN m.par

betr_air1_air2_mix(m) ==
  LET procname == "betr_air1_air2_mix"
  IN  Entries(<<1, 2, procname>>, (m.par.A ** m.par.mixing12) ** m.zdict[1].bulk,
              <<2, 1, procname>>,
              IF HasMixing21(m)
                THEN (m.par.A ** m.par.mixing21) ** m.zdict[2].bulk
                ELSE (m.par.A ** m.par.mixing12) ** m.zdict[2].bulk)

\* The air-side mass transfer coefficient of the cuticle.
mtcavv(m) ==
  LET logKow == m.chempardict[2].log10Kow
      Neg(x) == Zero (-) x
      Sum(c) == (((Neg(<<347, 100>>)
                     (-) (<<279, 100>> (.) m.chemdict.log10molmass))
                     (+) (<<97, 100>> (.) logKow[c]))
                     (-) <<56, 5>>)
                     (+) (<<704, 1000>> (.) logKow[c])
      logpc == [c \in Cells |-> Sum(c) (/) Two]
  IN  [c \in Cells |->
         (<<3600, 1>> (.) Pow10(logpc[c])) (/) m.chempardict[2].Kaw[c]]

\* As VegSeries, the leaf area index left out of the vegetated area.
VegSeries_noLAI(m) ==
  LET A == (m.par.A ** m.par.perc6) ** m.par.perc3
      dc == (A ** mtcavv(m)) ** m.zdict[3].bulk
      da == (A ** m.par.mtcairvegair) ** m.zdict[2].air
  IN  [c \in Cells |->
         IF RGt(A[c], Zero) THEN Recip(Recip(dc[c]) (+) Recip(da[c])) ELSE Zero]

\* The air-vegetation coefficient before the speed limit: two resistances
\* in series where the vegetated area is positive, zero elsewhere.
VegSeries(m) ==
  LET A == ((m.par.A ** m.par.perc6) ** m.par.perc3) ** m.par.LAI
      dc == (A ** mtcavv(m)) ** m.zdict[3].bulk
      da == (A ** m.par.mtcairvegair) ** m.zdict[2].air
  IN  [c \in Cells |->
         IF RGt(A[c], Zero) THEN Recip(Recip(dc[c]) (+) Recip(da[c])) ELSE Zero]

\* The limit to a characteristic time of 8 h.
VegSpeedLimit(m) ==
  [c \in Cells |-> (m.zdict[3].bulk[c] (.) m.vdict[3].bulk[c]) (/) <<8, 1>>]


\* controldict['secondarySupr'] asks for re-emission to be suppressed.
Suppressed(m) == m.controldict.secondarySupr \in SwitchedOn

betr_air2_veg_diff(m) ==
  LET procname == "betr_air2_veg_diff"
      series == VegSeries(m)
      limit == VegSpeedLimit(m)
      d == [c \in Cells |-> RMin(series[c], limit[c])]
  IN  Entries(<<2, 3, procname>>, d,
              <<3, 2, procname>>, IF Suppressed(m) THEN Zeros ELSE d)

betr_air2_veg_drydep(m) ==
  LET A == (m.par.A ** m.par.perc6) ** m.par.perc3
  IN  Entry(<<2, 3, "betr_air2_veg_drydep">>,
            ((A ** m.par.fp2) ** m.par.mtcaerosol) ** m.zdict[2].aerosol)

\* (x**-1 + y**-1)**-1
InSeries(x, y) == [c \in Cells |-> Recip(Recip(x[c]) (+) Recip(y[c]))]

betr_air2_freshwater_diff(m) ==
  LET procname == "betr_air2_freshwater_diff"
      d == (m.par.A ** m.par.perc4)
             ** InSeries(m.par.mtc4air ** m.zdict[4].air,
                         m.par.mtc4water ** m.zdict[4].water)
  IN  Entries(<<2, 4, procname>>, d,
              <<4, 2, procname>>, IF Suppressed(m) THEN Zeros ELSE d)

\* As betr_air2_freshwater_drydep, the entry put under the key of
\* betr_air2_freshwater_diff.
betr_air2_freshwater_drydep_diffkey(m) ==
  Entry(<<2, 4, "betr_air2_freshwater_diff">>,
        (((m.par.A ** m.par.perc4) ** m.par.fp2) ** m.par.mtcaerosol)
          ** m.zdict[2].aerosol)

betr_air2_freshwater_drydep(m) ==
  Entry(<<2, 4, "betr_air2_freshwater_drydep">>,
        (((m.par.A ** m.par.perc4) ** m.par.fp2) ** m.par.mtcaerosol)
          ** m.zdict[2].aerosol)

\* The operands of an element-wise operation have the shape of the grid;
\* numpy raises ValueError when shapes do not broadcast.
Broadcasts(a) == DOMAIN a = Cells

\* The try block of betr_air2_ocean_diff raises ValueError: par has no
\* field 'perc8', or zdict[5]['air'] does not broadcast.
OceanDiffTryFails(m) == ~HasPerc8(m) \/ ~Broadcasts(m.zdict[5].air)

\* The formula of the try block, and the one of the except block.
OceanDiffPotLid(m) ==
  ((m.par.A ** m.par.perc5) ** (Const(One) -- m.par.perc8))
    ** InSeries(m.par.mtc25air ** m.zdict[5].air,
                m.par.mtc25water ** m.zdict[5].water)

OceanDiffLegacy(m) ==
  (m.par.A ** m.par.perc5)
    ** InSeries(m.par.mtc25air ** m.zdict[2].air,
                m.par.mtc25water ** m.zdict[5].water)

betr_air2_ocean_diff(m) ==
  LET procname == "betr_air2_ocean_diff"
      d == IF OceanDiffTryFails(m) THEN OceanDiffLegacy(m) ELSE OceanDiffPotLid(m)
  IN  Entries(<<2, 5, procname>>, d,
              <<5, 2, procname>>, IF Suppressed(m) THEN Zeros ELSE d)

betr_air2_ocean_drydep(m) ==
  Entry(<<2, 5, "betr_air2_ocean_drydep">>,
        IF HasPerc8(m)
          THEN ((((m.par.A ** m.par.perc5) ** (Const(One) -- m.par.perc8))
                  ** m.par.fp2) ** m.par.mtcaerosol) ** m.zdict[2].aerosol
          ELSE (((m.par.A ** m.par.perc5) ** m.par.fp2) ** m.par.mtcaerosol)
                 ** m.zdict[2].aerosol)

\* controldict['plowingEnhance'] asks for the plowing enhancement.
Plowing(m) == m.controldict.plowingEnhance \in SwitchedOn

\* The soil-side coefficient of the air-soil exchange, with and without
\* the plowing enhancement.
SoilSide(m) ==
  LET root(a) == [c \in Cells |-> Sqrt(a[c])]
  IN  IF Plowing(m)
        THEN (((m.par.A ** m.par.perc6) ** root(m.par.h6))
                ** (((root(m.par.diff6air) ** m.zdict[6].air)
                       ++ (root(m.par.diff6water) ** m.zdict[6].water))
                       ++ (root(m.par.convec6solids) ** m.zdict[6].solids)))
               // root(Const(pi) ** m.par.tspe)
        ELSE (m.par.A ** m.par.perc6)
               ** (((m.par.diff6air ** m.zdict[6].air)
                      ++ (m.par.diff6water ** m.zdict[6].water))
                      ++ (m.par.convec6solids ** m.zdict[6].solids))

\* The air-soil coefficient: two resistances in series where the soil
\* fraction is positive, zero elsewhere.
SoilSeries(m) ==
  LET dsa == SoilSide(m)
      das == ((m.par.A ** m.par.perc6) ** m.par.mtc6air) ** m.zdict[6].air
  IN  [c \in Cells |->
         IF RGt(m.par.perc6[c], Zero)
           THEN Recip(Recip(dsa[c]) (+) Recip(das[c])) ELSE Zero]

betr_air2_soil_diff(m) ==
  LET procname == "betr_air2_soil_diff"
      d == SoilSeries(m)
  IN  Entries(<<2, 6, procname>>, d,
              <<6, 2, procname>>, IF Suppressed(m) THEN Zeros ELSE d)

betr_air2_soil_drydep(m) ==
  Entry(<<2, 6, "betr_air2_soil_drydep">>,
        ((((m.par.A ** m.par.perc6) ** m.par.fp2) ** m.par.mtcaerosol)
            ** m.zdict[2].aerosol) ** (Const(One) -- m.par.perc3))

betr_vegetation_soil_litter(m) ==
  Entry(<<3, 6, "betr_vegetation_soil_litter">>,
        (m.vdict[3].bulk ** m.zdict[3].bulk) // m.par.tauveg)

\* The flow within each region that a flow matrix holds: rows whose from
\* and to regions agree are written, in row order, to the region's cell.
SameRegionFlow(rows) ==
  [c \in Cells |->
     LET same == {i \in DOMAIN rows : rows[i][1] = rows[i][2] /\ rows[i][1] = c}
     IN  IF same = {} THEN Zero
         ELSE rows[CHOOSE i \in same : \A j \in same : j <= i][3]]

\* array(v > 0).astype(int)
PositiveMask(v) == [c \in Cells |-> IF RGt(v[c], Zero) THEN One ELSE Zero]

betr_freshwater_ocean_runoff(m) ==
  LET mflow == SameRegionFlow(m.flowdict[<<4, 5>>])
      oceanmask == PositiveMask(m.vdict[5].bulk)
      freshwatermask == PositiveMask(m.vdict[4].bulk)
      soilrunoff == (((m.par.A ** m.par.perc6) ** m.par.runoff6water)
                       ** oceanmask) ** freshwatermask
      flow == [c \in Cells |-> RMax(mflow[c], soilrunoff[c])]
  IN  Entry(<<4, 5, "betr_freshwater_ocean_runoff">>, m.zdict[4].bulk ** flow)

betr_ocean_sinkflux(m) ==
  Entry(<<5, 5, "betr_ocean_sinkflux">>,
        m.zdict[5].bulk ** SameRegionFlow(m.flowdict[<<5, 5>>]))

betr_freshwater_sediment_diff(m) ==
  LET procname == "betr_freshwater_sediment_diff"
      d == ((m.par.A ** m.par.perc4) ** m.par.diff7water) ** m.zdict[4].water
  IN  Entries(<<4, 7, procname>>, d, <<7, 4, procname>>, d)

betr_freshwater_sediment_deposit(m) ==
  Entry(<<4, 7, "betr_freshwater_sediment_deposit">>,
        ((m.par.A ** m.par.perc4) ** m.par.seddep) ** m.zdict[4].sussed)

betr_ocean_air_resusp(m) ==
  Entry(<<5, 2, "betr_ocean_air_resusp">>,
        IF Suppressed(m) THEN Zeros
        ELSE IF HasPerc8(m)
          THEN (((m.par.A ** m.par.perc5) ** (Const(One) -- m.par.perc8))
                  ** m.par.prodaerosol5) ** m.zdict[5].water
          ELSE ((m.par.A ** m.par.perc5) ** m.par.prodaerosol5)
                 ** m.zdict[5].water)

betr_soil_air_resusp(m) ==
  Entry(<<6, 2, "betr_soil_air_resusp">>,
        IF Suppressed(m) THEN Zeros
        ELSE ((m.par.A ** m.par.perc6) ** m.par.resusp6) ** m.zdict[6].solids)

\* The transpiration stream concentration factor.
TSCF(m) ==
  [c \in Cells |->
     LET dev == m.chempardict[6].log10Kow[c] (-) <<89, 50>>
     IN  <<98, 125>> (.) Exp((Zero (-) (dev (.) dev)) (/) <<61, 25>>)]

betr_soil_veg_rootuptake(m) ==
  Entry(<<6, 3, "betr_soil_veg_rootuptake">>,
        ((((((m.par.A ** m.par.perc6) ** m.par.perc3) ** m.par.LAI)
              ** TSCF(m)) ** m.par.vegwateruptake) ** m.zdict[6].water))

\* As betr_soil_freshwater_runoff, without the freshwater mask.
betr_soil_freshwater_runoff_nomask(m) ==
  Entry(<<6, 4, "betr_soil_freshwater_runoff">>,
        ((m.par.A ** m.par.perc6) ** m.par.runoff6water) ** m.zdict[6].water)

betr_soil_freshwater_runoff(m) ==
  LET freshwatermask == PositiveMask(m.vdict[4].bulk)
  IN  Entry(<<6, 4, "betr_soil_freshwater_runoff">>,
            (((freshwatermask ** m.par.A) ** m.par.perc6) ** m.par.runoff6water)
              ** m.zdict[6].water)

betr_soil_freshwater_erosion(m) ==
  LET freshwatermask == PositiveMask(m.vdict[4].bulk)
  IN  Entry(<<6, 4, "betr_soil_freshwater_erosion">>,
            (((freshwatermask ** m.par.A) ** m.par.perc6) ** m.par.runoff6solids)
              ** m.zdict[6].solids)

betr_sediment_freshwater_resusp(m) ==
  Entry(<<7, 4, "betr_sediment_freshwater_resusp">>,
        ((m.par.A ** m.par.perc4) ** m.par.sedresup) ** m.zdict[7].solids)

----------------------------------------------------------------------------
(* What a call of a process method leaves behind in the objects it was     *)
(* given: the arrays of self.m and the arrays stored in self.D.  The       *)
(* methods assign in place (x[mask] = v) only to arrays they have made     *)
(* themselves and to copies.                                               *)

\* As copy_copy, the reference denoting the array copied from.
copy_alias(a) == [shared |-> TRUE, value |-> a]

\* copy.copy(a): a reference to a new array with the contents of a.
copy_copy(a) == [shared |-> FALSE, value |-> a]

\* The contents of the array a after the assignment ref[mask] = v, ref
\* being a reference made from a.
AfterAssign(a, ref, mask, v) ==
  IF ref.shared THEN [c \in Cells |-> IF c \in mask THEN v[c] ELSE ref.value[c]]
                ELSE a

\* par['stwet'] after one of the eight wet deposition processes has put 1
\* in stwet_tmp where stwet is 0.
StwetAfter(mo) ==
  LET norainmask == {c \in Cells : mo.par.stwet[c] = Zero}
      stwet_tmp == copy_copy(mo.par.stwet)
  IN  AfterAssign(mo.par.stwet, stwet_tmp, norainmask, Const(One))

\* self.m after the process named p has run.
ModelAfter(p, mo) ==
  IF p \in RainProcs THEN [mo EXCEPT !.par.stwet = StwetAfter(mo)] ELSE mo

\* The exchanges betr_intermittent_rain revises, in the order of its code;
\* it gets as far as x when self.D holds both keys of x and of every
\* exchange before x.
RainOrder == <<"veg", "freshwater", "ocean", "soil">>
Reaches(d, x) ==
  \A i \in 1..Len(RainOrder) :
    (\E j \in i..Len(RainOrder) : RainOrder[j] = x)
      => {WetKey(RainOrder[i]), DissKey(RainOrder[i])} \subseteq DOMAIN d

\* The arrays stored in self.D after the process named p has run, before
\* getD merges what p returns.
GraphAfter(p, mo, d) ==
  IF p # "betr_intermittent_rain" THEN d
  ELSE [k \in DOMAIN d |->
          IF k \in RainKeys
            THEN LET x == CHOOSE y \in Exchanges : k \in {WetKey(y), DissKey(y)}
                     i == IF k = WetKey(x) THEN 1 ELSE 2
                 IN  IF Reaches(d, x)
                       THEN AfterAssign(d[k], copy_copy(d[k]),
                                        JollietMask(mo, d[WetKey(x)], d[DissKey(x)]),
                                        ReviseExchange(mo, d[WetKey(x)], d[DissKey(x)],
                                                       WashoutFraction(mo, x))[i])
                       ELSE d[k]
            ELSE d[k]]

----------------------------------------------------------------------------
(* The engine: class process.                                              *)

VARIABLES
  m,         \* self.m, the model object
  plist,     \* self.plist, the names of model.proclist in order
  D,         \* self.D, the shared dictionary of D-values
  pc,        \* "new": __init__ has set m, D and plist; "aborted": __init__
             \* exited; "idle": no call of getD is running; "running": getD
             \* is in its loop; "raised": getD ended with an exception
  idx,       \* position in plist of the process getD calls next
  calls,     \* number of calls of getD so far
  log,       \* the processes the running (or last) call of getD has called,
             \* in call order, each with the dictionary it returned
  returned,  \* the dictionaries the calls of getD have returned, in order
  err        \* the exception the last call of getD ended with, or "none"

vars == <<m, plist, D, pc, idx, calls, log, returned, err>>

\* getattr(self, p)() in the loop of getD, self.D being d.  An attribute
\* that is no method (the dictionary D) is not callable: TypeError.
CallProcess(p, mo, d) ==
  CASE p = "betr_degradation" -> Ok(betr_degradation(mo))
    [] p = "betr_air2_veg_dissolution" -> Ok(betr_air2_veg_dissolution(mo))
    [] p = "betr_air2_veg_wetparticle" -> Ok(betr_air2_veg_wetparticle(mo))
    [] p = "betr_air2_freshwater_dissolution" -> Ok(betr_air2_freshwater_dissolution(mo))
    [] p = "betr_air2_freshwater_wetparticle" -> Ok(betr_air2_freshwater_wetparticle(mo))
    [] p = "betr_air2_ocean_dissolution" -> Ok(betr_air2_ocean_dissolution(mo))
    [] p = "betr_air2_ocean_wetparticle" -> Ok(betr_air2_ocean_wetparticle(mo))
    [] p = "betr_air2_soil_dissolution" -> Ok(betr_air2_soil_dissolution(mo))
    [] p = "betr_air2_soil_wetparticle" -> Ok(betr_air2_soil_wetparticle(mo))
    [] p = "betr_intermittent_rain" -> betr_intermittent_rain(mo, d)
    [] p = "betr_advectiveloss" -> Ok(betr_advectiveloss(mo))
    [] p = "betr_air1_air2_mix" -> Ok(betr_air1_air2_mix(mo))
    [] p = "betr_air2_veg_diff" -> Ok(betr_air2_veg_diff(mo))
    [] p = "betr_air2_veg_drydep" -> Ok(betr_air2_veg_drydep(mo))
    [] p = "betr_air2_freshwater_diff" -> Ok(betr_air2_freshwater_diff(mo))
    [] p = "betr_air2_freshwater_drydep" -> Ok(betr_air2_freshwater_drydep(mo))
    [] p = "betr_air2_ocean_diff" -> Ok(betr_air2_ocean_diff(mo))
    [] p = "betr_air2_ocean_drydep" -> Ok(betr_air2_ocean_drydep(mo))
    [] p = "betr_air2_soil_diff" -> Ok(betr_air2_soil_diff(mo))
    [] p = "betr_air2_soil_drydep" -> Ok(betr_air2_soil_drydep(mo))
    [] p = "betr_vegetation_soil_litter" -> Ok(betr_vegetation_soil_litter(mo))
    [] p = "betr_freshwater_ocean_runoff" -> Ok(betr_freshwater_ocean_runoff(mo))
    [] p = "betr_ocean_sinkflux" -> Ok(betr_ocean_sinkflux(mo))
    [] p = "betr_freshwater_sediment_diff" -> Ok(betr_freshwater_sediment_diff(mo))
    [] p = "betr_freshwater_sediment_deposit" -> Ok(betr_freshwater_sediment_deposit(mo))
    [] p = "betr_ocean_air_resusp" -> Ok(betr_ocean_air_resusp(mo))
    [] p = "betr_soil_air_resusp" -> Ok(betr_soil_air_resusp(mo))
    [] p = "betr_soil_veg_rootuptake" -> Ok(betr_soil_veg_rootuptake(mo))
    [] p = "betr_soil_freshwater_runoff" -> Ok(betr_soil_freshwater_runoff(mo))
    [] p = "betr_soil_freshwater_erosion" -> Ok(betr_soil_freshwater_erosion(mo))
    [] p = "betr_sediment_freshwater_resusp" -> Ok(betr_sediment_freshwater_resusp(mo))
    [] p \notin ProcessMethods -> Exc("TypeError")

\* As Update, an entry self.D already holds kept.
Update_keep(d, r) ==
  [k \in DOMAIN d \cup DOMAIN r |-> IF k \in DOMAIN d THEN d[k] ELSE r[k]]

\* As Update, self.D replaced by r.
Update_replace(d, r) == r

\* As Update, an entry self.D already holds added to.
Update_add(d, r) ==
  [k \in DOMAIN d \cup DOMAIN r |->
     IF k \in DOMAIN r
       THEN (IF k \in DOMAIN d THEN d[k] ++ r[k] ELSE r[k])
       ELSE d[k]]

\* self.D.update(r)
Update(d, r) ==
  [k \in DOMAIN d \cup DOMAIN r |-> IF k \in DOMAIN r THEN r[k] ELSE d[k]]

\* The validation loop of __init__.
AllImplemented(l) == \A i \in 1..Len(l) : HasAttr(l[i])

Construct ==
  /\ pc = "new"
  /\ pc' = IF AllImplemented(plist) THEN "idle" ELSE "aborted"
  /\ UNCHANGED <<m, plist, D, idx, calls, log, returned, err>>

GetDCall ==
  /\ pc \in {"idle", "raised"}
  /\ calls < MaxCalls
  /\ pc' = "running"
  /\ idx' = 1
  /\ calls' = calls + 1
  /\ log' = << >>
  /\ err' = "none"
  /\ UNCHANGED <<m, plist, D, returned>>

RunProcess ==
  /\ pc = "running"
  /\ idx <= Len(plist)
  /\ LET r == CallProcess(plist[idx], m, D)
     IN  /\ r.exception = "none"
         /\ D' = Update(GraphAfter(plist[idx], m, D), r.value)
         /\ log' = Append(log, [name |-> plist[idx], result |-> r.value])
  /\ m' = ModelAfter(plist[idx], m)
  /\ idx' = idx + 1
  /\ UNCHANGED <<plist, pc, calls, returned, err>>

ProcessRaises ==
  /\ pc = "running"
  /\ idx <= Len(plist)
  /\ LET r == CallProcess(plist[idx], m, D)
     IN  /\ r.exception # "none"
         /\ err' = r.exception
  /\ m' = ModelAfter(plist[idx], m)
  /\ D' = GraphAfter(plist[idx], m, D)
  /\ pc' = "raised"
  /\ UNCHANGED <<plist, idx, calls, log, returned>>

GetDReturn ==
  /\ pc = "running"
  /\ idx > Len(plist)
  /\ pc' = "idle"
  /\ returned' = Append(returned, D)
  /\ UNCHANGED <<m, plist, D, idx, calls, log, err>>

Next == Construct \/ GetDCall \/ RunProcess \/ ProcessRaises \/ GetDReturn

----------------------------------------------------------------------------
(* Inputs.                                                                 *)

Corrector == "betr_intermittent_rain"

\* A required list in the order of the process list files: degradation,
\* then the wet deposition processes of each exchange.
BaseList ==
  << "betr_degradation",
     "betr_air2_veg_dissolution", "betr_air2_veg_wetparticle",
     "betr_air2_freshwater_dissolution", "betr_air2_freshwater_wetparticle",
     "betr_air2_ocean_dissolution", "betr_air2_ocean_wetparticle",
     "betr_air2_soil_dissolution", "betr_air2_soil_wetparticle" >>

Reverse(l) == [i \in 1..Len(l) |-> l[Len(l) + 1 - i]]
Drop(l, i) == SubSeq(l, 1, i - 1) \o SubSeq(l, i + 1, Len(l))
Insert(l, k, e) ==
  LET j == IF k > Len(l) THEN Len(l) ELSE k
  IN  SubSeq(l, 1, j) \o <<e>> \o SubSeq(l, j + 1, Len(l))

\* Names a list may hold besides those of BaseList: the intermittent-rain
\* process, an attribute of the instance that is no method, and a name the
\* class does not define.
ExtraNames == {Corrector, "D", "betr_snow_melt"}

Orders == {BaseList, Reverse(BaseList)}
Shortened == Orders \cup {Drop(l, i) : l \in Orders, i \in 1..Len(BaseList)}

\* BaseList in either order, with at most one name left out and at most
\* one extra name put in at any position.
EngineLists ==
  Shortened \cup {Insert(l, k, e) : l \in Shortened, k \in 0..Len(BaseList),
                                    e \in ExtraNames}

\* The lists of the specifications that vary the parameters instead.
FewLists ==
  { BaseList \o <<Corrector>>, <<Corrector>> \o BaseList,
    BaseList \o <<"D">>, BaseList \o <<"betr_snow_melt">> }

FlagTokens ==
  { "0", "False", "false", "f", "FALSE", "F", "No", "no", "n", "NO",
    "1", "True", "true", "t", "TRUE", "T", "Yes", "yes", "y", "YES" }

\* The control flags, one varied at a time, and the optional inputs.
Flags(a, s, p) == [aerosoldeg |-> a, secondarySupr |-> s, plowingEnhance |-> p]
Current == [present |-> {"perc8", "mixing21"}, z5air |-> TRUE]

Start(lists, profiles, ctls, opts) ==
  /\ plist \in lists
  /\ m \in {ModelObject(prof, ctl, opt) :
              prof \in [Cells -> profiles], ctl \in ctls, opt \in opts}
  /\ D = EmptyGraph
  /\ pc = "new"
  /\ idx = 1
  /\ calls = 0
  /\ log = << >>
  /\ returned = << >>
  /\ err = "none"

\* Every list, a few parameter snapshots.
Init ==
  Start(EngineLists, {Washout, MassLimited, NoRain},
        {Flags(a, "0", "0") : a \in {"0", "1"}}, {Current})
Spec == Init /\ [][Next]_vars

\* Every cell profile, a few lists.
InitCells == Start(FewLists, CellProfiles, {Flags("0", "0", "0")}, {Current})
SpecCells == InitCells /\ [][Next]_vars

\* Cells with and without each surface, with and without plowing, the
\* processes that exchange with a surface.
SurfaceList ==
  << "betr_air2_veg_diff", "betr_air2_freshwater_diff", "betr_air2_ocean_diff",
     "betr_air2_soil_diff", "betr_soil_freshwater_runoff",
     "betr_soil_freshwater_erosion", "betr_freshwater_ocean_runoff" >>
SurfaceLists ==
  { SurfaceList, Reverse(SurfaceList) \o <<"D">>,
    SurfaceList \o <<"betr_snow_melt">> }
InitSurface ==
  Start(SurfaceLists, SurfaceProfiles,
        {Flags("0", "0", p) : p \in {"0", "1"}}, {Current})
SpecSurface == InitSurface /\ [][Next]_vars

\* Every process description, in many orders, a few parameter snapshots.
SourceOrder ==
  << "betr_degradation", "betr_advectiveloss", "betr_air1_air2_mix",
     "betr_air2_veg_diff", "betr_air2_veg_drydep",
     "betr_air2_veg_dissolution", "betr_air2_veg_wetparticle",
     "betr_air2_freshwater_diff", "betr_air2_freshwater_drydep",
     "betr_air2_freshwater_dissolution", "betr_air2_freshwater_wetparticle",
     "betr_air2_ocean_diff", "betr_air2_ocean_drydep",
     "betr_air2_ocean_dissolution", "betr_air2_ocean_wetparticle",
     "betr_air2_soil_diff", "betr_air2_soil_drydep",
     "betr_air2_soil_dissolution", "betr_air2_soil_wetparticle",
     "betr_vegetation_soil_litter", "betr_freshwater_ocean_runoff",
     "betr_ocean_sinkflux", "betr_freshwater_sediment_diff",
     "betr_freshwater_sediment_deposit", "betr_ocean_air_resusp",
     "betr_soil_air_resusp", "betr_soil_veg_rootuptake",
     "betr_soil_freshwater_runoff", "betr_soil_freshwater_erosion",
     "betr_sediment_freshwater_resusp" >>

\* The list l started r places later, and l with places i and i + 1 swapped.
Rotate(l, r) == [i \in 1..Len(l) |-> l[((i + r - 1) % Len(l)) + 1]]
Swap(l, i) ==
  [j \in 1..Len(l) |-> IF j = i THEN l[i + 1] ELSE IF j = i + 1 THEN l[i] ELSE l[j]]

Permuted ==
  {Rotate(SourceOrder, r) : r \in 0..(Len(SourceOrder) - 1)}
    \cup {Reverse(SourceOrder)}
    \cup {Swap(SourceOrder, i) : i \in {5, 6, 13, 14, 18}}

OrderLists ==
  {l \o <<Corrector>> : l \in Permuted}
    \cup { Insert(SourceOrder, 19, Corrector), SourceOrder,
           <<Corrector>> \o SourceOrder,
           SourceOrder \o <<"betr_snow_melt">> }
InitOrder ==
  Start(OrderLists, {Washout, MassLimited, NoRain}, {Flags("0", "0", "0")},
        {Current})
SpecOrder == InitOrder /\ [][Next]_vars

\* Every token of each control flag, every combination of optional inputs,
\* the processes that read them.
FlagList ==
  BaseList \o << "betr_air1_air2_mix", "betr_air2_veg_diff",
                 "betr_air2_freshwater_diff", "betr_air2_ocean_diff",
                 "betr_air2_soil_diff", "betr_air2_ocean_drydep",
                 "betr_ocean_air_resusp", "betr_soil_air_resusp", Corrector >>
FlagLists == {FlagList, Reverse(FlagList), FlagList \o <<"betr_snow_melt">>}
FlagSettings ==
  {Flags(t, "0", "0") : t \in FlagTokens}
    \cup {Flags("0", t, "0") : t \in FlagTokens}
    \cup {Flags("0", "0", t) : t \in FlagTokens}
OptionalInputs ==
  [present : SUBSET {"perc8", "mixing21"}, z5air : BOOLEAN]
InitFlags == Start(FlagLists, {Washout}, FlagSettings, OptionalInputs)
SpecFlags == InitFlags /\ [][Next]_vars

----------------------------------------------------------------------------
(* Properties.                                                             *)

\* The last call of getD has returned.
JustReturned == pc = "idle" /\ calls > 0

LastReturned == returned[Len(returned)]

LogNames == [i \in 1..Len(log) |-> log[i].name]

Before(l, i) == {l[j] : j \in 1..(i - 1)}

\* betr_intermittent_rain is listed after the eight processes it revises.
CorrectorAfterAll(l) ==
  \E i \in 1..Len(l) : l[i] = Corrector /\ RainProcs \subseteq Before(l, i)

\* C1: construction fails exactly when a required name has no process
\* implementation: once __init__ has run, it has aborted if and only if
\* some name of the list is not a process description method.
C1_ValidationExact ==
  pc # "new" => (pc = "aborted" <=> \E i \in 1..Len(plist) : plist[i] \notin ProcessMethods)

\* C2: one call of getD calls the listed processes once each in list order
\* (the log of a call is the list, or the part of it before the position
\* reached), and in the returned dictionary every key holds the value of
\* the last process in list order that returned that key.
C2_OnceInOrderLastWriterWins ==
  /\ pc \in {"running", "raised"} => LogNames = SubSeq(plist, 1, idx - 1)
  /\ JustReturned =>
       /\ LogNames = plist
       /\ \A i \in 1..Len(log) : \A k \in DOMAIN log[i].result :
            (\A j \in (i + 1)..Len(log) : k \notin DOMAIN log[j].result)
               => k \in DOMAIN LastReturned /\ LastReturned[k] = log[i].result[k]

\* A second call has returned a dictionary in which a later process has
\* overwritten the different value of an earlier one.
C2_Witness ==
  /\ JustReturned
  /\ calls = 2
  /\ \E i \in 1..Len(log) : \E j \in (i + 1)..Len(log) :
       \E k \in DOMAIN log[i].result \cap DOMAIN log[j].result :
          /\ log[i].result[k] # log[j].result[k]
          /\ LastReturned[k] = log[j].result[k]

\* C3: the dictionary getD returns holds exactly the keys returned by the
\* processes that call of getD has called.
C3_KeysAreUnionOfEmitted ==
  JustReturned =>
    DOMAIN LastReturned = UNION {DOMAIN log[i].result : i \in 1..Len(log)}

\* A second call has returned, after degradation (seven keys) and the
\* intermittent-rain process (eight keys it shares with others) have run.
C3_Witness ==
  /\ JustReturned
  /\ calls = 2
  /\ \E i \in 1..Len(log) : log[i].name = Corrector
  /\ \E i \in 1..Len(log) : log[i].name = "betr_degradation"
  /\ Cardinality(DOMAIN LastReturned) = 15

\* C4: with betr_intermittent_rain listed after the eight processes it
\* revises, every later call of getD returns the dictionary the first call
\* returned: the same keys, the same array under every key.
C4_GetDIdempotent ==
  CorrectorAfterAll(plist) =>
    \A i \in 1..Len(returned) : returned[i] = returned[1]

\* Two calls have returned, and the first left a revised value that
\* differs from the value the wet deposition process returns.
C4_Witness ==
  /\ CorrectorAfterAll(plist)
  /\ Len(returned) = 2
  /\ \E i \in 1..Len(log) : \E k \in RainKeys :
       /\ k \in DOMAIN log[i].result
       /\ log[i].name # Corrector
       /\ log[i].result[k] # returned[1][k]
       /\ returned[2][k] = returned[1][k]

\* The values of the eight keys as the eight processes returned them in
\* the call of getD that is logged.
RawGraph ==
  [k \in RainKeys |->
     log[CHOOSE i \in 1..Len(log) : log[i].name = k[3]].result[k]]

\* C5: if betr_intermittent_rain is listed before any of the eight
\* processes it revises (one of them is not called before it), every call
\* of getD ends at it with KeyError and none returns a dictionary; if it
\* is listed after all eight, the eight keys of the returned dictionary
\* hold what it computes from the values those processes returned in the
\* same call.
C5_CorrectorReadsMergedValues ==
  \A i \in 1..Len(plist) : plist[i] = Corrector =>
    IF RainProcs \subseteq Before(plist, i)
      THEN JustReturned =>
             \A k \in RainKeys :
                LastReturned[k] = betr_intermittent_rain(m, RawGraph).value[k]
      ELSE /\ returned = << >>
           /\ calls > 0 => pc \in {"running", "raised"}
           /\ pc = "running" => idx <= i
           /\ pc = "raised" => idx = i /\ err = "KeyError"

\* A second call of getD has ended with KeyError at betr_intermittent_rain
\* after some of the processes it revises had been called.
C5_Witness ==
  /\ pc = "raised"
  /\ err = "KeyError"
  /\ calls = 2
  /\ plist[idx] = Corrector
  /\ Before(plist, idx) \cap RainProcs # {}
  /\ returned = << >>

\* betr_intermittent_rain has run in the logged call of getD.
CorrectorRan == \E i \in 1..Len(log) : log[i].name = Corrector

\* The value betr_intermittent_rain returned under key k in the logged call.
Written(k) == log[CHOOSE i \in 1..Len(log) : log[i].name = Corrector].result[k]

\* The value betr_intermittent_rain read under key k: the one the process
\* named in k had returned earlier in the logged call.
Original(k) == log[CHOOSE i \in 1..Len(log) : log[i].name = k[3]].result[k]

\* The precondition of the revision of exchange x in cell c.
InPrecondition(x, c) ==
  /\ m.par.stdry[c] # Zero
  /\ m.par.stwet[c] # Zero
  /\ Original(WetKey(x))[c] # Zero
  /\ Original(DissKey(x))[c] # Zero

Wa(x, c) ==
  (((m.vdict[2].bulk[c] (.) m.zdict[2].bulk[c]) (.) Two) (/) m.par.stdry[c])
     (.) WashoutFraction(m, x)[c]

Dj1(x, c) == (Wa(x, c) (.) (m.par.stdry[c] (+) m.par.stwet[c])) (/) m.par.stdry[c]

Dj2(x, c) ==
  ((Original(WetKey(x))[c] (+) Original(DissKey(x))[c]) (.) m.par.stwet[c])
     (/) (m.par.stdry[c] (+) m.par.stwet[c])

WetShare(c) == m.par.stwet[c] (/) (m.par.stdry[c] (+) m.par.stwet[c])

\* The factor of the two-regime rule.
RegimeFactor(x, c) ==
  IF RGt(Dj1(x, c), Dj2(x, c)) THEN WetShare(c)
                               ELSE (Dj1(x, c) (/) Dj2(x, c)) (.) WetShare(c)

\* The two arrays of exchange x as the two-regime rule revises them.
Revised(x) ==
  ReviseExchange(m, Original(WetKey(x)), Original(DissKey(x)), WashoutFraction(m, x))

\* C6: in a cell with stdry, stwet and both D-values of an exchange
\* nonzero, both revised D-values are the original times wet/(dry+wet) if
\* dj1 > dj2 and times (dj1/dj2)*wet/(dry+wet) otherwise, so their ratio is
\* the original one; these are the values written for the exchanges to
\* vegetation, freshwater and ocean.  dry=2, wet=1, wa=3 and the D-values
\* 2 and 1 give both times 1/3.
C6_TwoRegimeScaling ==
  /\ do_jolliet(<<3, 1>>, Two, One, One, Two, <<3, 1>>) = << <<2, 3>>, <<1, 3>> >>
  /\ CorrectorRan =>
       \A x \in Exchanges : \A c \in Cells : InPrecondition(x, c) =>
          /\ Revised(x)[1][c] = Original(WetKey(x))[c] (.) RegimeFactor(x, c)
          /\ Revised(x)[2][c] = Original(DissKey(x))[c] (.) RegimeFactor(x, c)
          /\ Revised(x)[1][c] (.) Original(DissKey(x))[c]
               = Revised(x)[2][c] (.) Original(WetKey(x))[c]
          /\ x # "soil" => /\ Written(WetKey(x))[c] = Revised(x)[1][c]
                           /\ Written(DissKey(x))[c] = Revised(x)[2][c]

\* The corrector has revised a mass-limited cell (dj1 <= dj2) of the
\* exchange to vegetation, and changed its D-values.
C6_Witness ==
  /\ CorrectorRan
  /\ \E c \in Cells :
       /\ InPrecondition("veg", c)
       /\ ~RGt(Dj1("veg", c), Dj2("veg", c))
       /\ Written(WetKey("veg"))[c] # Original(WetKey("veg"))[c]
       /\ Written(WetKey("veg"))[c] # Original(WetKey("veg"))[c] (.) WetShare(c)

\* C7 as stated: in a cell that fails the precondition of an exchange, the
\* two values written back equal the two original values, for each of the
\* four exchanges.
C7_UnmaskedCellsUnchanged ==
  CorrectorRan =>
    \A x \in Exchanges : \A c \in Cells : ~InPrecondition(x, c) =>
       /\ Written(WetKey(x))[c] = Original(WetKey(x))[c]
       /\ Written(DissKey(x))[c] = Original(DissKey(x))[c]

\* C7 as amended: in a cell that fails the precondition of an exchange, the
\* two values written back equal the two original values for the exchanges
\* to vegetation, freshwater and ocean, and the two original values times
\* (1 - perc3*intercept) for the exchange to soil.
C7_UnmaskedCellsUnchangedButSoil ==
  CorrectorRan =>
    \A x \in Exchanges : \A c \in Cells : ~InPrecondition(x, c) =>
       LET f == IF x = "soil" THEN One (-) (m.par.perc3[c] (.) m.par.intercept[c])
                              ELSE One
       IN  /\ Written(WetKey(x))[c] = Original(WetKey(x))[c] (.) f
           /\ Written(DissKey(x))[c] = Original(DissKey(x))[c] (.) f

\* The corrector has run over a cell without dry period whose air-soil
\* D-values are nonzero, and has written other values than the original.
C7_Witness ==
  /\ CorrectorRan
  /\ \E c \in Cells :
       /\ m.par.stdry[c] = Zero
       /\ ~InPrecondition("soil", c)
       /\ ~InPrecondition("ocean", c)
       /\ Original(WetKey("ocean"))[c] # Zero
       /\ Written(WetKey("ocean"))[c] = Original(WetKey("ocean"))[c]
       /\ Original(WetKey("soil"))[c] # Zero
       /\ Written(WetKey("soil"))[c] # Original(WetKey("soil"))[c]

\* C8: in a cell that satisfies the precondition, the two values written
\* for the exchange to soil are the two-regime values times
\* (1 - perc3*intercept); the values written for the exchanges to
\* vegetation, freshwater and ocean are the two-regime values themselves.
C8_SoilInterceptionOnly ==
  CorrectorRan =>
    \A x \in Exchanges : \A c \in Cells : InPrecondition(x, c) =>
       LET f == IF x = "soil" THEN One (-) (m.par.perc3[c] (.) m.par.intercept[c])
                              ELSE One
       IN  /\ Written(WetKey(x))[c]
                = (Original(WetKey(x))[c] (.) RegimeFactor(x, c)) (.) f
           /\ Written(DissKey(x))[c]
                = (Original(DissKey(x))[c] (.) RegimeFactor(x, c)) (.) f

\* The corrector has revised a cell with perc3 = 0.5 and intercept = 0.4:
\* the air-soil values are the two-regime values times 0.8.
C8_Witness ==
  /\ CorrectorRan
  /\ \E c \in Cells :
       /\ InPrecondition("soil", c)
       /\ InPrecondition("veg", c)
       /\ m.par.perc3[c] = <<1, 2>>
       /\ m.par.intercept[c] = <<2, 5>>
       /\ Written(WetKey("soil"))[c]
            = (Original(WetKey("soil"))[c] (.) RegimeFactor("soil", c)) (.) <<4, 5>>
       /\ Written(WetKey("soil"))[c] # Original(WetKey("soil"))[c] (.) RegimeFactor("soil", c)

\* C9: the event rate is 0 in every cell with stwet = 0 and
\* precip*(stdry+stwet)/stwet in every other cell, and each of the eight
\* wet deposition processes returns 0 in every cell with stwet = 0.
C9_NoRainCellsAreZero ==
  \A c \in Cells :
     /\ m.par.stwet[c] = Zero => mtc_event(m)[c] = Zero
     /\ m.par.stwet[c] # Zero =>
          mtc_event(m)[c]
            = (m.par.precip[c] (.) (m.par.stdry[c] (+) m.par.stwet[c])) (/) m.par.stwet[c]
     /\ \A i \in 1..Len(log) : log[i].name \in RainProcs =>
          \A k \in DOMAIN log[i].result :
             m.par.stwet[c] = Zero => log[i].result[k][c] = Zero

\* The eight processes have run over a cell with stwet = 0, precip > 0 and
\* stdry > 0, and over nonzero fugacity capacities of rain and aerosol.
C9_Witness ==
  /\ RainProcs \subseteq {log[i].name : i \in 1..Len(log)}
  /\ \E c \in Cells :
       /\ m.par.stwet[c] = Zero
       /\ RGt(m.par.precip[c], Zero)
       /\ RGt(m.par.stdry[c], Zero)
       /\ m.zdict[2].rain[c] # Zero
       /\ m.zdict[2].aerosol[c] # Zero
       /\ m.par.perc3[c] # Zero
       /\ \A k \in RainKeys : Original(k)[c] = Zero

\* The tokens C10 names for a flag that is not set, and for one that is.
FalsyTokens == {"0", "False", "false", "f", "FALSE", "F", "No", "no", "n", "NO"}
TruthyTokens == {"1", "True", "true", "t", "TRUE", "T", "Yes", "yes", "y", "YES"}

\* C10: betr_degradation returns k_reac * bulk volume * Z['air'] under
\* (1,1) and (2,2) when controldict['aerosoldeg'] is one of the tokens
\* '0','False','false','f','FALSE','F','No','no','n','NO', and k_reac * bulk
\* volume * Z['bulk'] when the flag is set; every other compartment has
\* k_reac * bulk volume * Z['bulk'].
C10_DegradationPhase ==
  \A i \in 1..Len(log) : log[i].name = "betr_degradation" =>
     \A k \in Compartments :
        LET d == log[i].result[<<k, k, "betr_degradation">>]
            kv == m.chempardict[k].k_reac ** m.vdict[k].bulk
        IN  /\ (k \in {1, 2} /\ m.controldict.aerosoldeg \in FalsyTokens)
                 => d = kv ** m.zdict[k].air
            /\ (k \in {1, 2} /\ m.controldict.aerosoldeg \in TruthyTokens)
                 => d = kv ** m.zdict[k].bulk
            /\ k \notin {1, 2} => d = kv ** m.zdict[k].bulk

\* The entries the current call of getD has got from the process named p.
Emitted(p) == {log[i].result : i \in {j \in DOMAIN log : log[j].name = p}}

\* The rate and the fugacity capacity of the two soil-to-freshwater
\* processes.
SoilLoss(p) ==
  IF p = "betr_soil_freshwater_runoff"
    THEN m.par.runoff6water ** m.zdict[6].water
    ELSE m.par.runoff6solids ** m.zdict[6].solids

SoilToFreshwater == {"betr_soil_freshwater_runoff", "betr_soil_freshwater_erosion"}

\* C11: the (6,4) coefficient of the runoff and of the erosion process is
\* exactly zero in every cell whose freshwater bulk volume is 0, and is
\* A * perc6 * rate * Z in every cell whose freshwater bulk volume is
\* positive.
C11_RunoffNeedsFreshwater ==
  \A p \in SoilToFreshwater : \A r \in Emitted(p) : \A c \in Cells :
    LET full == ((m.par.A ** m.par.perc6) ** SoilLoss(p))[c]
        V4 == m.vdict[4].bulk[c]
    IN  /\ DOMAIN r = {<<6, 4, p>>}
        /\ V4 = Zero => r[<<6, 4, p>>][c] = Zero
        /\ RGt(V4, Zero) => r[<<6, 4, p>>][c] = full

\* Both processes have run on a cell that has soil and no freshwater body.
C11_Witness ==
  /\ \A p \in SoilToFreshwater : Emitted(p) # {}
  /\ \E c \in Cells :
       /\ m.vdict[4].bulk[c] = Zero
       /\ RGt(m.par.perc6[c], Zero)
       /\ \A p \in SoilToFreshwater : \A r \in Emitted(p) : r[<<6, 4, p>>][c] = Zero

\* The four diffusive exchanges between the lower air and a surface: the
\* process, the key of the forward (air to surface) coefficient and the
\* area fraction the exchange takes place on.
Diffusive == {"veg", "freshwater", "ocean", "soil"}

DiffName(x) ==
  CASE x = "veg" -> "betr_air2_veg_diff"
    [] x = "freshwater" -> "betr_air2_freshwater_diff"
    [] x = "ocean" -> "betr_air2_ocean_diff"
    [] x = "soil" -> "betr_air2_soil_diff"

Forward(x) == <<2, Dest(x), DiffName(x)>>
Backward(x) == <<Dest(x), 2, DiffName(x)>>

AreaFraction(x) ==
  CASE x = "veg" -> ((m.par.A ** m.par.perc6) ** m.par.perc3) ** m.par.LAI
    [] x = "freshwater" -> m.par.perc4
    [] x = "ocean" -> m.par.perc5
    [] x = "soil" -> m.par.perc6

\* C12: in every cell whose area fraction for a diffusive exchange is zero
\* the forward coefficient the process emits is exactly zero, no forward
\* coefficient is NaN, and the air-vegetation coefficient never exceeds
\* Z[3]['bulk'] * V[3]['bulk'] / 8.
C12_ZeroAreaAndSpeedLimit ==
  /\ \A x \in Diffusive : \A r \in Emitted(DiffName(x)) : \A c \in Cells :
       /\ r[Forward(x)][c] # NaN
       /\ AreaFraction(x)[c] = Zero => r[Forward(x)][c] = Zero
  /\ \A r \in Emitted(DiffName("veg")) : \A c \in Cells :
       ~RGt(r[Forward("veg")][c], VegSpeedLimit(m)[c])

\* The four processes have run on a cell without freshwater and without
\* ocean whose air-vegetation exchange is held at the speed limit.
C12_Witness ==
  /\ \A x \in Diffusive : Emitted(DiffName(x)) # {}
  /\ \E c \in Cells :
       /\ m.par.perc4[c] = Zero
       /\ m.par.perc5[c] = Zero
       /\ \A r \in Emitted(DiffName("freshwater")) : r[Forward("freshwater")][c] = Zero
       /\ \A r \in Emitted(DiffName("ocean")) : r[Forward("ocean")][c] = Zero
       /\ RGt(VegSeries(m)[c], VegSpeedLimit(m)[c])
       /\ \A r \in Emitted(DiffName("veg")) :
            r[Forward("veg")][c] = VegSpeedLimit(m)[c]

\* The processes that read controldict['secondarySupr'], each with the key
\* of its surface-to-air entry.
ReEmission ==
  { <<DiffName(x), Backward(x)>> : x \in Diffusive }
    \cup { <<"betr_ocean_air_resusp", <<5, 2, "betr_ocean_air_resusp">>>>,
           <<"betr_soil_air_resusp", <<6, 2, "betr_soil_air_resusp">>>> }

\* The keys a process that reads the flag emits.
ReEmissionKeys(p) ==
  {pk[2] : pk \in {q \in ReEmission : q[1] = p}}
    \cup {Forward(x) : x \in {y \in Diffusive : DiffName(y) = p}}

\* C13: the suppression flag never removes a key; when
\* controldict['secondarySupr'] is one of '1','True','true','t','TRUE','T',
\* 'Yes','yes','y','YES' every surface-to-air entry (3,2), (4,2), (5,2),
\* (6,2) is all-zero, and when the flag is not set the reverse entry of
\* each diffusive exchange equals its forward entry.
C13_SuppressionZeroesReEmission ==
  /\ \A pk \in ReEmission : \A r \in Emitted(pk[1]) :
       /\ DOMAIN r = ReEmissionKeys(pk[1])
       /\ m.controldict.secondarySupr \in TruthyTokens => r[pk[2]] = Zeros
  /\ \A x \in Diffusive : \A r \in Emitted(DiffName(x)) :
       m.controldict.secondarySupr \notin TruthyTokens
         => r[Backward(x)] = r[Forward(x)]

\* The processes with a backward-compatibility fallback: the key whose
\* value has one, the optional field of par the try block reads, and the
\* value the except block computes.
WithFallback ==
  { "betr_air1_air2_mix", "betr_air2_ocean_diff", "betr_air2_ocean_drydep",
    "betr_air2_ocean_dissolution", "betr_air2_ocean_wetparticle",
    "betr_ocean_air_resusp" }

FallbackKey(p) ==
  CASE p = "betr_air1_air2_mix" -> <<2, 1, p>>
    [] p = "betr_ocean_air_resusp" -> <<5, 2, p>>
    [] OTHER -> <<2, 5, p>>

OptionalField(p) == IF p = "betr_air1_air2_mix" THEN "mixing21" ELSE "perc8"

LegacyValue(p) ==
  LET A5 == m.par.A ** m.par.perc5
  IN  CASE p = "betr_air1_air2_mix" ->
             (m.par.A ** m.par.mixing12) ** m.zdict[2].bulk
        [] p = "betr_air2_ocean_diff" -> OceanDiffLegacy(m)
        [] p = "betr_air2_ocean_drydep" ->
             ((A5 ** m.par.fp2) ** m.par.mtcaerosol) ** m.zdict[2].aerosol
        [] p = "betr_air2_ocean_dissolution" ->
             (A5 ** mtc_event(m)) ** m.zdict[2].rain
        [] p = "betr_air2_ocean_wetparticle" ->
             (((A5 ** mtc_event(m)) ** m.zdict[2].aerosol) ** m.par.fp2)
               ** m.par.scavrat
        [] p = "betr_ocean_air_resusp" ->
             (A5 ** m.par.prodaerosol5) ** m.zdict[5].water

\* C14: a process emits the value of its backward-compatibility formula
\* only when the optional field its try block reads (par['mixing21'],
\* par['perc8']) is absent; an error in any other part of the formula does
\* not select the fallback.
C14_FallbackOnlyOnMissingField ==
  \A p \in WithFallback : \A r \in Emitted(p) :
    r[FallbackKey(p)] = LegacyValue(p) => OptionalField(p) \notin DOMAIN m.par

\* The names a list holds, and the dictionary a process other than
\* betr_intermittent_rain returns.
NamesOf(l) == {l[i] : i \in 1..Len(l)}
OutputOf(p) == CallProcess(p, m, EmptyGraph).value

\* The graph of a set of process names, built without regard to order: the
\* entries of every process other than betr_intermittent_rain, then, if
\* betr_intermittent_rain is among the names, its revision of them.
Merged(names) ==
  LET ps == names \ {Corrector}
  IN  [k \in UNION {DOMAIN OutputOf(p) : p \in ps} |->
         OutputOf(CHOOSE p \in ps : k \in DOMAIN OutputOf(p))[k]]

OrderFree(names) ==
  IF Corrector \in names
    THEN Update(Merged(names), RevisedGraph(m, Merged(names)))
    ELSE Merged(names)

\* C15: no key is emitted by two different processes of one call, except
\* that betr_intermittent_rain emits again the eight keys it revises; and
\* the graph getD returns for a list that places betr_intermittent_rain
\* after the eight processes it revises is the same for every order of the
\* other processes: it is determined by the set of names.
C15_OrderOfOthersIrrelevant ==
  /\ \A i, j \in DOMAIN log :
       LET common == DOMAIN log[i].result \cap DOMAIN log[j].result
       IN  (i < j /\ common # {}) =>
              (log[j].name = Corrector /\ common \subseteq RainKeys)
  /\ (JustReturned /\ (Corrector \in NamesOf(plist) => CorrectorAfterAll(plist)))
       => LastReturned = OrderFree(NamesOf(plist))

\* getD has returned for a list of all processes that is not in the order
\* of the source and ends with betr_intermittent_rain.
C15_Witness ==
  /\ JustReturned
  /\ NamesOf(plist) = ProcessMethods
  /\ plist[Len(plist)] = Corrector
  /\ \E i \in 1..Len(SourceOrder) : plist[i] # SourceOrder[i]
  /\ LastReturned = OrderFree(ProcessMethods)

\* C16: the third component of every key a process has emitted is the name
\* of a process description method, and it is the name of the process
\* that emitted the entry.
C16_KeyNamesItsProducer ==
  \A i \in DOMAIN log : \A k \in DOMAIN log[i].result :
    k[3] \in ProcessMethods /\ k[3] = log[i].name

\* C17: no step changes an array of the model object (in particular
\* par['stwet'], whatever the wet deposition processes do with their
\* divisor); self.D changes only when an iteration of getD merges the
\* dictionary a process has returned, every entry the process did not
\* return keeps its array, and betr_intermittent_rain returns its eight
\* keys and no other.
C17_NoSideEffects ==
  [][ /\ m' = m
      /\ D' # D =>
           /\ pc = "running" /\ pc' = "running"
           /\ Len(log') = Len(log) + 1
           /\ D' = Update(D, log'[Len(log')].result)
      /\ (Len(log') = Len(log) + 1 /\ log'[Len(log')].name = Corrector) =>
           /\ DOMAIN log'[Len(log')].result = RainKeys
           /\ DOMAIN D' = DOMAIN D
           /\ \A k \in DOMAIN D \ RainKeys : D'[k] = D[k] ]_vars

\* The eight wet deposition processes and betr_intermittent_rain have run
\* on a cell with stwet = 0 and on other processes' entries.
C17_Witness ==
  /\ CorrectorRan
  /\ RainProcs \subseteq {log[i].name : i \in DOMAIN log}
  /\ \E c \in Cells : m.par.stwet[c] = Zero
  /\ DOMAIN D # RainKeys
  /\ \A k \in RainKeys : D[k] = Written(k)

\* The exchanges whose revised values are written back as they are.
Unintercepted == {"veg", "freshwater", "ocean"}

\* C18: for the exchanges to vegetation, freshwater and ocean, in every
\* cell with stdry, stwet and both D-values nonzero, the two values
\* betr_intermittent_rain writes add up to min(dj1, dj2), and neither is
\* greater than the value it revises.
C18_RevisedSumIsMin ==
  CorrectorRan =>
    \A x \in Unintercepted : \A c \in Cells : InPrecondition(x, c) =>
      /\ Written(WetKey(x))[c] (+) Written(DissKey(x))[c]
           = RMin(Dj1(x, c), Dj2(x, c))
      /\ ~RGt(Written(WetKey(x))[c], Original(WetKey(x))[c])
      /\ ~RGt(Written(DissKey(x))[c], Original(DissKey(x))[c])

\* betr_intermittent_rain has revised the three exchanges in a cell where
\* the mass of the air limits them: each sum is dj1, less than dj2 and
\* less than the sum of the values revised.
C18_Witness ==
  /\ CorrectorRan
  /\ \E c \in Cells : \A x \in Unintercepted :
       /\ InPrecondition(x, c)
       /\ RGt(Dj2(x, c), Dj1(x, c))
       /\ Written(WetKey(x))[c] (+) Written(DissKey(x))[c] = Dj1(x, c)
       /\ RGt(Original(WetKey(x))[c] (+) Original(DissKey(x))[c], Dj1(x, c))

====
